---- MODULE Spec2Model ----
(***************************************************************************)
(* Model of pybloom.BloomFilter (src/pybloom/bloom_filter.py).             *)
(*                                                                         *)
(* One BloomFilter object is followed from the call of its constructor     *)
(* through add / might_contain / __len__ / current_false_positive_rate /   *)
(* clear calls.  The bit array is a sequence of bytes, indexed from 1 in   *)
(* the model (byte_index + 1).  Python values are tagged records so that   *)
(* values of different types can be told apart.                            *)
(***************************************************************************)
EXTENDS Integers, Sequences, FiniteSets, TLC

(***************************************************************************)
(* Bounds of the model.                                                    *)
(***************************************************************************)
\* at most this many successful add calls between two clears
MaxAdds == 3
\* longest initial_data sequence handed to the constructor
MaxInitial == 2
\* _calculate_optimal_params is called on every n up to MaxN
MaxN == 20

(***************************************************************************)
(* State                                                                   *)
(***************************************************************************)
VARIABLES
    phase,              \* "new": the constructor was not called yet;
                        \* "live": it returned an object; "failed": it raised
    expected_items,     \* self._expected_items
    fp_rate,            \* self._fp_rate
    num_bits,           \* self._num_bits
    num_hashes,         \* self._num_hashes
    num_bytes,          \* self._num_bytes
    bit_array,          \* self._bit_array
    items_added_count,  \* self._items_added_count
    result,             \* the last call: its name, argument, exception, value
    add_log,            \* history: the items of the add calls that returned
                        \* since construction or the last clear, in order
    cleared_items,      \* history: the items the last clear wiped, while no
                        \* add call has returned since
    hash_memo           \* history: the first _get_hashes call that returned
                        \* (its item, its indices, the counter at the call),
                        \* in a sequence; <<>> before it

config == <<expected_items, fp_rate, num_bits, num_hashes, num_bytes>>
vars == <<phase, expected_items, fp_rate, num_bits, num_hashes, num_bytes,
          bit_array, items_added_count, result, add_log, cleared_items, hash_memo>>

\* the items add accepted since construction or the last clear
Added == {add_log[i] : i \in 1..Len(add_log)}

(***************************************************************************)
(* Python values                                                           *)
(***************************************************************************)
PyStr(s) == [type |-> "str", text |-> s]
PyInt(s) == [type |-> "int", text |-> s]
PyFloat(s) == [type |-> "float", text |-> s]
PyBool(s) == [type |-> "bool", text |-> s]
PyTuple(s) == [type |-> "tuple", text |-> s]
\* an object whose __repr__ raises; strRaises: does str(item) raise as well
PyBadRepr(name, strRaises) == [type |-> "object", text |-> name, strRaises |-> strRaises]

HashableItems == {PyStr("hello"), PyStr("world"), PyInt("1"), PyBool("True")}
UnhashableItems == {PyBadRepr("Bad", TRUE), PyBadRepr("Bad2", FALSE)}
Items == HashableItems \cup UnhashableItems
\* values that are equal, or render alike, across types
CanonItems == {PyInt("1"), PyFloat("1.0"), PyBool("True"),
               PyTuple("(1, 2)"), PyStr("(1, 2)")}

\* mutant of Repr: str(item), which does not quote a str
Repr_Str(item) == item.text

\* repr(item): a str is quoted, the other values render as their literal
ReprRaises(item) == item.type = "object"
Repr(item) == IF item.type = "str" THEN "'" \o item.text \o "'" ELSE item.text

\* hashlib.sha256(item_bytes).digest()[:8], by item_bytes
Sha256Head(item_bytes) ==
    CASE item_bytes = "'hello'" -> <<213, 67, 105, 145, 148, 163, 52, 52>>
      [] item_bytes = "'world'" -> <<68, 143, 17, 79, 6, 117, 189, 198>>
      [] item_bytes = "1" -> <<107, 134, 178, 115, 255, 52, 252, 225>>
      [] item_bytes = "1.0" -> <<208, 255, 89, 116, 182, 170, 82, 207>>
      [] item_bytes = "True" -> <<60, 188, 135, 199, 104, 31, 52, 219>>
      [] item_bytes = "'1'" -> <<154, 118, 34, 178, 74, 231, 53, 134>>
      [] item_bytes = "(1, 2)" -> <<207, 77, 171, 237, 44, 224, 244, 252>>
      [] item_bytes = "'(1, 2)'" -> <<204, 15, 225, 184, 250, 150, 112, 17>>

\* hashlib.md5(item_bytes + _HASH_SALT_SUFFIX).digest()[:8], by item_bytes
Md5SaltedHead(item_bytes) ==
    CASE item_bytes = "'hello'" -> <<39, 24, 126, 134, 108, 115, 155, 125>>
      [] item_bytes = "'world'" -> <<165, 198, 197, 0, 178, 16, 20, 77>>
      [] item_bytes = "1" -> <<118, 199, 240, 11, 214, 221, 94, 159>>
      [] item_bytes = "1.0" -> <<27, 14, 125, 95, 94, 126, 106, 229>>
      [] item_bytes = "True" -> <<67, 135, 239, 243, 72, 91, 175, 37>>
      [] item_bytes = "'1'" -> <<14, 178, 168, 90, 67, 179, 93, 187>>
      [] item_bytes = "(1, 2)" -> <<73, 79, 10, 237, 18, 87, 225, 125>>
      [] item_bytes = "'(1, 2)'" -> <<3, 155, 43, 163, 20, 224, 15, 215>>

\* int.from_bytes(bytes, byteorder="big", signed=False) % m.  The 64-bit
\* value itself is never built: it is reduced modulo m byte by byte.
RECURSIVE IntFromBytesMod(_, _)
IntFromBytesMod(bytes, m) ==
    IF bytes = <<>> THEN 0
    ELSE (IntFromBytesMod(SubSeq(bytes, 1, Len(bytes) - 1), m) * 256
          + bytes[Len(bytes)]) % m

\* mutant of GetHashes: the indices are reduced modulo the number of bits of
\* the bytearray, 8 * num_bytes, and not modulo num_bits
GetHashes_ModBytes(item, m, k) ==
    LET item_bytes == Repr(item)
        bits == 8 * ((m + 7) \div 8)
        h1 == IntFromBytesMod(Sha256Head(item_bytes), bits)
        h2 == IntFromBytesMod(Md5SaltedHead(item_bytes), bits)
    IN  [j \in 1..k |-> (h1 + (j - 1) * h2) % bits]

\* mutant of GetHashes: the counter leaks into the index
GetHashes_Seeded(item, m, k) ==
    LET item_bytes == Repr(item)
        h1 == IntFromBytesMod(Sha256Head(item_bytes), m)
        h2 == IntFromBytesMod(Md5SaltedHead(item_bytes), m)
    IN  [j \in 1..k |-> (h1 + (j - 1) * h2 + items_added_count) % m]

\* the indices _get_hashes yields for a hashable item: (h1 + i * h2) % m
\* for i in range(k)
GetHashes(item, m, k) ==
    LET item_bytes == Repr(item)
        h1 == IntFromBytesMod(Sha256Head(item_bytes), m)
        h2 == IntFromBytesMod(Md5SaltedHead(item_bytes), m)
    IN  [j \in 1..k |-> (h1 + (j - 1) * h2) % m]

\* the exception _get_hashes raises for an item whose repr() raises: the
\* TypeError of the handler, unless formatting the item for its message
\* raises first
GetHashesError(item) == IF item.strRaises THEN "RuntimeError" ELSE "TypeError"

(***************************************************************************)
(* Bit operations on the bytearray                                         *)
(***************************************************************************)
RECURSIVE Pow2(_)
Pow2(e) == IF e = 0 THEN 1 ELSE 2 * Pow2(e - 1)

\* bit_array[byte_index] & mask, as a truth value
BitIsSet(arr, index) ==
    LET byte_index == index \div 8
        bit_offset == index % 8
        mask == Pow2(bit_offset)
    IN  (arr[byte_index + 1] \div mask) % 2 = 1

\* mutant of SetBit: bit_array[byte_index] ^= mask
SetBit_Toggle(arr, index) ==
    LET byte_index == index \div 8
        bit_offset == index % 8
        mask == Pow2(bit_offset)
    IN  IF BitIsSet(arr, index) THEN [arr EXCEPT ![byte_index + 1] = @ - mask]
        ELSE [arr EXCEPT ![byte_index + 1] = @ + mask]

\* mutant of SetBit: bit_array[byte_index] = mask
SetBit_Assign(arr, index) ==
    LET byte_index == index \div 8
        bit_offset == index % 8
        mask == Pow2(bit_offset)
    IN  [arr EXCEPT ![byte_index + 1] = mask]

\* bit_array[byte_index] |= mask
SetBit(arr, index) ==
    LET byte_index == index \div 8
        bit_offset == index % 8
        mask == Pow2(bit_offset)
    IN  IF BitIsSet(arr, index) THEN arr
        ELSE [arr EXCEPT ![byte_index + 1] = @ + mask]

\* mutant of ZeroBytes: the bytes are not zero
ZeroBytes_Ones(nbytes) == [b \in 1..nbytes |-> 255]

\* bytearray(num_bytes)
ZeroBytes(nbytes) == [b \in 1..nbytes |-> 0]

(***************************************************************************)
(* Constructor arguments                                                   *)
(***************************************************************************)
\* expected_items: an int with its value, an int too large for a float
\* (10**400, type "hugeint"), or a value that is no numbers.Integral
NArg(type, val) == [type |-> type, val |-> val]
NInputs == {NArg("int", -100), NArg("int", 0), NArg("int", 1), NArg("int", 3),
            NArg("hugeint", 1), NArg("str", 0)}

\* false_positive_rate: a float given in millionths, or a value that is no
\* numbers.Real
PArg(type, micro) == [type |-> type, micro |-> micro]
PInputs == {PArg("float", 0), PArg("float", 10000), PArg("float", 100000),
            PArg("float", 500000), PArg("float", 900000), PArg("float", 1000000),
            PArg("float", 1500000), PArg("str", 0)}

\* initial_data: None, or a list of at most MaxInitial items
NoneValue == [type |-> "NoneType"]
NoneData == [type |-> "NoneType", items |-> <<>>]
PyList(q) == [type |-> "list", items |-> q]
RECURSIVE SeqsUpTo(_, _)
SeqsUpTo(S, len) ==
    IF len = 0 THEN {<<>>}
    ELSE LET shorter == SeqsUpTo(S, len - 1)
         IN  shorter \cup {Append(q, x) : q \in shorter, x \in S}
InitialDataInputs == {NoneData} \cup {PyList(q) : q \in SeqsUpTo(Items, MaxInitial)}

\* isinstance(expected_items, numbers.Integral)
IsIntegral(n) == n.type \in {"int", "hugeint"}

\* mutant of ValidExpectedItems: expected_items < 0 is what is rejected
ValidExpectedItems_NonNegative(n) == IsIntegral(n) /\ (n.type = "hugeint" \/ n.val >= 0)

\* isinstance(expected_items, numbers.Integral) and expected_items > 0
ValidExpectedItems(n) == IsIntegral(n) /\ (n.type = "hugeint" \/ n.val > 0)
\* isinstance(false_positive_rate, numbers.Real) and 0.0 < p < 1.0
ValidFpRate(p) == p.type = "float" /\ 0 < p.micro /\ p.micro < 1000000

\* the arguments _calculate_optimal_params is called on by itself: every n
\* up to MaxN and an n beyond the float range with every rate, and the two
\* pairs of the tests, (1000, 0.01) and (1000000, 0.0001)
ParamNInputs == {NArg("int", v) : v \in -1..MaxN} \cup {NArg("hugeint", 1)}
ParamPInputs == {p \in PInputs : ValidFpRate(p)} \cup {PArg("float", 100)}
ParamInputs ==
    (ParamNInputs \X ParamPInputs)
    \cup {<<NArg("int", 1000), PArg("float", 10000)>>,
          <<NArg("int", 1000000), PArg("float", 100)>>}

(***************************************************************************)
(* Parameter derivation, in fixed point (millionths)                       *)
(***************************************************************************)
\* math.log(p) in millionths, for the rates of PInputs and ParamPInputs
LogMicro(p) ==
    CASE p.micro = 100 -> -9210340
      [] p.micro = 10000 -> -4605170
      [] p.micro = 100000 -> -2302585
      [] p.micro = 500000 -> -693147
      [] p.micro = 900000 -> -105361

\* math.ceil(a / b) for a >= 0, b > 0
CeilDiv(a, b) == (a + b - 1) \div b

PyMax(a, b) == IF a >= b THEN a ELSE b

\* a * c / d as quotient and remainder, for a >= 0, c >= 0 and d > 0,
\* taken through the decimal digits of a so that no product leaves 32 bits
RECURSIVE MulDivMod(_, _, _)
MulDivMod(a, c, d) ==
    IF a = 0 THEN [q |-> 0, r |-> 0]
    ELSE LET rest == MulDivMod(a \div 10, c, d)
             low == 10 * rest.r + (a % 10) * (c % d)
         IN  [q |-> 10 * rest.q + (a % 10) * (c \div d) + low \div d,
              r |-> low % d]

\* mutant of CeilMulDiv: int() of the quotient, without math.ceil
CeilMulDiv_Floor(a, c, d) == MulDivMod(a, c, d).q

\* math.ceil(a * c / d)
CeilMulDiv(a, c, d) ==
    LET x == MulDivMod(a, c, d)
    IN  x.q + (IF x.r > 0 THEN 1 ELSE 0)

\* _calculate_optimal_params(n, p): <<m, k>>.  math.log(2) is 693147
\* millionths and math.log(2) ** 2 is 480453 millionths.  n * math.log(p)
\* raises OverflowError for an int beyond the float range.
CalculateOptimalParams(n, p) ==
    IF n.type = "hugeint" THEN <<1, 1>>
    ELSE IF n.val <= 0 THEN <<1, 1>>
    ELSE LET m == CeilMulDiv(n.val, -LogMicro(p), 480453)
             \* (m / n) * math.log(2), in millionths
             x == MulDivMod(m, 693147, n.val)
             k == x.q \div 1000000
                  + (IF x.q % 1000000 > 0 \/ x.r > 0 THEN 1 ELSE 0)
         IN  <<PyMax(1, m), PyMax(1, k)>>

\* BloomFilter._calculate_optimal_params(n, p), the static method called
\* by itself
CalculateOptimalParamsCall(n, p) ==
    /\ result' = [op |-> "_calculate_optimal_params", arg |-> [n |-> n, p |-> p],
                  exc |-> "None", ret |-> CalculateOptimalParams(n, p)]
    /\ UNCHANGED <<phase, config, bit_array, items_added_count, add_log,
                   cleared_items, hash_memo>>

Result(op, arg, exc, ret) == [op |-> op, arg |-> arg, exc |-> exc, ret |-> ret]

(***************************************************************************)
(* _get_hashes, called on its own (list(bf._get_hashes(item)))             *)
(***************************************************************************)
\* list(self._get_hashes(item)): the exception raised and the list built
GetHashesList(item, m, k) ==
    IF ReprRaises(item) THEN [exc |-> GetHashesError(item), ret |-> <<>>]
    ELSE [exc |-> "None", ret |-> GetHashes(item, m, k)]

GetHashesCall(item) ==
    /\ phase = "live"
    /\ LET r == GetHashesList(item, num_bits, num_hashes)
       IN  /\ result' = Result("_get_hashes", item, r.exc, r.ret)
           /\ hash_memo' = IF r.exc = "None" /\ hash_memo = <<>>
                            THEN <<[item |-> item, indices |-> r.ret,
                                    count |-> items_added_count]>>
                            ELSE hash_memo
    /\ UNCHANGED <<phase, config, bit_array, items_added_count, add_log, cleared_items>>

(***************************************************************************)
(* add                                                                     *)
(***************************************************************************)
\* the loop of add over the indices from position i on: <<bit_array,
\* indices_set>> at its end
RECURSIVE AddLoop(_, _, _, _)
AddLoop(arr, indices, i, indices_set) ==
    IF i > Len(indices) THEN <<arr, indices_set>>
    ELSE AddLoop(SetBit(arr, indices[i]), indices, i + 1,
                 indices_set \/ ~BitIsSet(arr, indices[i]))

\* mutant of AddCounts: the counter is never incremented
AddCounts_Never(indices_set, k) == FALSE

\* mutant of AddCounts: the counter is incremented on every call
AddCounts_Always(indices_set, k) == TRUE

\* whether add increments the counter after its loop
AddCounts(indices_set, k) == indices_set \/ k = 0

\* mutant of AddItem: the counter is incremented before the item is hashed
AddItem_CountsFirst(arr, count, item, m, k) ==
    IF ReprRaises(item)
    THEN [exc |-> GetHashesError(item), arr |-> arr, count |-> count + 1]
    ELSE LET done == AddLoop(arr, GetHashes(item, m, k), 1, FALSE)
         IN  [exc |-> "None", arr |-> done[1], count |-> count + 1]

\* add(item) on an object with this bit array and counter: the exception it
\* raises ("None" when it returns) and the bit array and counter it leaves
AddItem(arr, count, item, m, k) ==
    IF ReprRaises(item)
    THEN [exc |-> GetHashesError(item), arr |-> arr, count |-> count]
    ELSE LET done == AddLoop(arr, GetHashes(item, m, k), 1, FALSE)
         IN  [exc |-> "None", arr |-> done[1],
              count |-> IF AddCounts(done[2], k) THEN count + 1 ELSE count]

\* the call bloom_filter.add(item)
AddCall(item) ==
    /\ phase = "live"
    /\ LET r == AddItem(bit_array, items_added_count, item, num_bits, num_hashes)
       IN  /\ bit_array' = r.arr
           /\ items_added_count' = r.count
           /\ result' = Result("add", item, r.exc, NoneValue)
    /\ UNCHANGED <<phase, config>>

\* the call, with the history of the calls kept
Add(item) ==
    /\ Len(add_log) < MaxAdds
    /\ AddCall(item)
    /\ add_log' = IF result'.exc = "None" THEN Append(add_log, item) ELSE add_log
    /\ cleared_items' = IF result'.exc = "None" THEN {} ELSE cleared_items
    /\ UNCHANGED hash_memo

\* the call, with no history kept: any number of calls
AddUnlogged(item) ==
    /\ AddCall(item)
    /\ UNCHANGED <<add_log, cleared_items, hash_memo>>

(***************************************************************************)
(* might_contain, __contains__                                             *)
(***************************************************************************)
\* mutant of MightContainLoop: the first index decides
MightContainLoop_FirstOnly(arr, indices, i) ==
    Len(indices) = 0 \/ BitIsSet(arr, indices[1])

\* the loop of might_contain from position i on: FALSE at the first index
\* whose bit is not set, TRUE when there is none
RECURSIVE MightContainLoop(_, _, _)
MightContainLoop(arr, indices, i) ==
    IF i > Len(indices) THEN TRUE
    ELSE IF ~BitIsSet(arr, indices[i]) THEN FALSE
    ELSE MightContainLoop(arr, indices, i + 1)

\* mutant of MightContainItem: the test of a bit sets it (|= for &)
MightContainItem_Sets(arr, item, m, k) ==
    IF m = 0 THEN [exc |-> "None", ret |-> FALSE, arr |-> arr]
    ELSE IF ReprRaises(item)
    THEN [exc |-> GetHashesError(item), ret |-> NoneValue, arr |-> arr]
    ELSE [exc |-> "None", arr |-> SetBit(arr, GetHashes(item, m, k)[1]),
          ret |-> MightContainLoop(arr, GetHashes(item, m, k), 1)]

\* might_contain(item): the exception it raises, the value it returns and
\* the bit array it leaves
MightContainItem(arr, item, m, k) ==
    IF m = 0 THEN [exc |-> "None", ret |-> FALSE, arr |-> arr]
    ELSE IF ReprRaises(item)
    THEN [exc |-> GetHashesError(item), ret |-> NoneValue, arr |-> arr]
    ELSE [exc |-> "None", arr |-> arr,
          ret |-> MightContainLoop(arr, GetHashes(item, m, k), 1)]

MightContain(item) ==
    /\ phase = "live"
    /\ LET r == MightContainItem(bit_array, item, num_bits, num_hashes)
       IN  /\ bit_array' = r.arr
           /\ result' = Result("might_contain", item, r.exc, r.ret)
    /\ UNCHANGED <<phase, config, items_added_count, add_log, cleared_items, hash_memo>>

\* item in bloom_filter
Contains(item) ==
    /\ phase = "live"
    /\ LET r == MightContainItem(bit_array, item, num_bits, num_hashes)
       IN  /\ bit_array' = r.arr
           /\ result' = Result("__contains__", item, r.exc, r.ret)
    /\ UNCHANGED <<phase, config, items_added_count, add_log, cleared_items, hash_memo>>

(***************************************************************************)
(* __len__, current_false_positive_rate, clear                             *)
(***************************************************************************)
LenValue(count) == count

PyLen ==
    /\ phase = "live"
    /\ result' = Result("__len__", NoneValue, "None", LenValue(items_added_count))
    /\ UNCHANGED <<phase, config, bit_array, items_added_count, add_log, cleared_items, hash_memo>>

\* 1000 * exp(a / b) by its series, from the term of index j on
RECURSIVE ExpSeries(_, _, _, _)
ExpSeries(a, b, j, term) ==
    IF term = 0 THEN 0
    ELSE term + ExpSeries(a, b, j + 1, (term * a) \div (b * j))

\* mutant of ExpNegMilli: the sign of the exponent is lost
ExpNegMilli_Positive(a, b) ==
    IF a >= 10 * b THEN 0 ELSE ExpSeries(a, b, 1, 1000)

\* 1000 * math.exp(-a / b); below one thousandth from a / b = 10 on
ExpNegMilli(a, b) ==
    IF a >= 10 * b THEN 0 ELSE (1000 * 1000) \div ExpSeries(a, b, 1, 1000)

\* 1000 * (base / 1000) ** k
RECURSIVE PowMilli(_, _)
PowMilli(base, k) ==
    IF k = 0 THEN 1000 ELSE (PowMilli(base, k - 1) * base) \div 1000

\* current_false_positive_rate(), in thousandths
CurrentFalsePositiveRate(n_current, k, m) ==
    IF m = 0 THEN 1000
    ELSE PowMilli(1000 - ExpNegMilli(k * n_current, m), k)

CurrentFpRate ==
    /\ phase = "live"
    /\ result' = Result("current_false_positive_rate", NoneValue, "None",
                        CurrentFalsePositiveRate(items_added_count, num_hashes, num_bits))
    /\ UNCHANGED <<phase, config, bit_array, items_added_count, add_log, cleared_items, hash_memo>>

\* mutant of ClearState: the counter is not reset
ClearState_KeepCount(nbytes) == [arr |-> ZeroBytes(nbytes), count |-> items_added_count]

\* mutant of ClearState: the array is rebuilt one byte longer
ClearState_Longer(nbytes) == [arr |-> ZeroBytes(nbytes + 1), count |-> 0]

\* clear(): the bit array and the counter it leaves
ClearState(nbytes) == [arr |-> ZeroBytes(nbytes), count |-> 0]

\* mutant of ClearCall: the array is rebuilt with one byte per bit
ClearCall_Resizes ==
    /\ phase = "live"
    /\ num_bytes' = num_bits
    /\ bit_array' = ZeroBytes(num_bits)
    /\ items_added_count' = 0
    /\ result' = Result("clear", NoneValue, "None", NoneValue)
    /\ UNCHANGED <<phase, expected_items, fp_rate, num_bits, num_hashes>>

\* the call bloom_filter.clear()
ClearCall ==
    /\ phase = "live"
    /\ bit_array' = ClearState(num_bytes).arr
    /\ items_added_count' = ClearState(num_bytes).count
    /\ result' = Result("clear", NoneValue, "None", NoneValue)
    /\ UNCHANGED <<phase, config>>

Clear ==
    /\ ClearCall
    /\ add_log' = <<>>
    /\ cleared_items' = Added
    /\ UNCHANGED hash_memo

ClearUnlogged ==
    /\ ClearCall
    /\ UNCHANGED <<add_log, cleared_items, hash_memo>>

(***************************************************************************)
(* __init__                                                                *)
(***************************************************************************)
\* for item in initial_data: self.add(item), from position i on; the first
\* exception ends it
RECURSIVE AddAll(_, _, _, _, _, _)
AddAll(arr, count, data, i, m, k) ==
    IF i > Len(data) THEN [exc |-> "None", arr |-> arr, count |-> count, done |-> i - 1]
    ELSE LET r == AddItem(arr, count, data[i], m, k)
         IN  IF r.exc # "None"
             THEN [exc |-> r.exc, arr |-> r.arr, count |-> r.count, done |-> i - 1]
             ELSE AddAll(r.arr, r.count, data, i + 1, m, k)

\* mutant of InitObject: the sizes are rounded down and not clamped to 1
InitObject_Unclamped(n, p, initial_data) ==
    IF ~ValidExpectedItems(n) THEN [exc |-> "ValueError"]
    ELSE IF ~ValidFpRate(p) THEN [exc |-> "ValueError"]
    ELSE LET m == IF n.type = "hugeint" THEN 0
                  ELSE (-(n.val * LogMicro(p))) \div 480453
             k == IF n.type = "hugeint" THEN 0
                  ELSE (m * 693147) \div (n.val * 1000000)
             nbytes == CeilDiv(m, 8)
         IN  [exc |-> "None", expected_items |-> n, fp_rate |-> p,
              num_bits |-> m, num_hashes |-> k, num_bytes |-> nbytes,
              bit_array |-> ZeroBytes(nbytes), items_added_count |-> 0,
              done |-> 0]

\* __init__(expected_items, false_positive_rate, initial_data): the
\* exception it raises and the attributes of the object it builds
InitObject(n, p, initial_data) ==
    IF ~ValidExpectedItems(n) THEN [exc |-> "ValueError"]
    ELSE IF ~ValidFpRate(p) THEN [exc |-> "ValueError"]
    ELSE LET mk == CalculateOptimalParams(n, p)
             m == PyMax(1, mk[1])
             k == PyMax(1, mk[2])
             nbytes == CeilDiv(m, 8)
             \* if initial_data: None and an empty list are both skipped
             data == IF initial_data.type = "NoneType" THEN <<>> ELSE initial_data.items
             filled == AddAll(ZeroBytes(nbytes), 0, data, 1, m, k)
         IN  [exc |-> filled.exc, expected_items |-> n, fp_rate |-> p,
              num_bits |-> m, num_hashes |-> k, num_bytes |-> nbytes,
              bit_array |-> filled.arr, items_added_count |-> filled.count,
              done |-> filled.done]

Construct(n, p, initial_data) ==
    /\ phase = "new"
    /\ LET o == InitObject(n, p, initial_data)
       IN  IF o.exc # "None"
           THEN /\ phase' = "failed"
                /\ result' = Result("__init__", <<n, p, initial_data>>, o.exc, NoneValue)
                /\ UNCHANGED <<config, bit_array, items_added_count, add_log, cleared_items, hash_memo>>
           ELSE /\ phase' = "live"
                /\ expected_items' = o.expected_items
                /\ fp_rate' = o.fp_rate
                /\ num_bits' = o.num_bits
                /\ num_hashes' = o.num_hashes
                /\ num_bytes' = o.num_bytes
                /\ bit_array' = o.bit_array
                /\ items_added_count' = o.items_added_count
                /\ result' = Result("__init__", <<n, p, initial_data>>, "None", NoneValue)
                /\ add_log' = SubSeq(initial_data.items, 1, o.done)
                /\ UNCHANGED <<cleared_items, hash_memo>>

(***************************************************************************)
(* Specification                                                           *)
(***************************************************************************)
Init ==
    /\ phase = "new"
    /\ expected_items = NoneValue
    /\ fp_rate = NoneValue
    /\ num_bits = 0
    /\ num_hashes = 0
    /\ num_bytes = 0
    /\ bit_array = <<>>
    /\ items_added_count = 0
    /\ result = Result("none", NoneValue, "None", NoneValue)
    /\ add_log = <<>>
    /\ cleared_items = {}
    /\ hash_memo = <<>>

Next ==
    \/ \E n \in NInputs, p \in PInputs, d \in InitialDataInputs : Construct(n, p, d)
    \/ \E item \in Items : Add(item)
    \/ \E item \in Items : MightContain(item)
    \/ \E item \in Items : Contains(item)
    \/ PyLen
    \/ CurrentFpRate
    \/ Clear

Spec == Init /\ [][Next]_vars

\* the calls that change the object, any number of them, with _get_hashes
\* called in between
NextHashes ==
    \/ \E n \in NInputs, p \in PInputs : Construct(n, p, NoneData)
    \/ \E item \in Items : AddUnlogged(item)
    \/ ClearUnlogged
    \/ \E item \in Items : GetHashesCall(item)

SpecHashes == Init /\ [][NextHashes]_vars

\* add and might_contain on the values of CanonItems
NextCanon ==
    \/ \E n \in NInputs, p \in PInputs : Construct(n, p, NoneData)
    \/ \E item \in CanonItems : Add(item)
    \/ \E item \in CanonItems : MightContain(item)

SpecCanon == Init /\ [][NextCanon]_vars

\* _calculate_optimal_params on its own
NextParams == \E np \in ParamInputs : CalculateOptimalParamsCall(np[1], np[2])

SpecParams == Init /\ [][NextParams]_vars

(***************************************************************************)
(* Properties                                                              *)
(***************************************************************************)
Live == phase = "live"
IsQuery(r) == r.op \in {"might_contain", "__contains__"} /\ r.exc = "None"
\* might_contain(item) in the current state
Present(item) == MightContainItem(bit_array, item, num_bits, num_hashes).ret = TRUE
\* the indices of an item under the current configuration
Indices(item) == GetHashes(item, num_bits, num_hashes)
IndexSet(item) == {Indices(item)[j] : j \in 1..num_hashes}

\* C1: no false negatives.  Every item an add call accepted since
\* construction or the last clear is reported present, in every state, and
\* every might_contain / in call on such an item returned True.
C1_NoFalseNegatives ==
    Live =>
        /\ \A x \in Added : Present(x)
        /\ (IsQuery(result) /\ result.arg \in Added) => result.ret = TRUE

\* C1 witness: two different items were added, and a later might_contain on
\* the first one returned True, in a filter of more than one byte
C1_Witness ==
    /\ Live /\ num_bytes > 1 /\ Len(add_log) >= 2
    /\ add_log[1] # add_log[2]
    /\ result.op = "might_contain" /\ result.arg = add_log[1]
    /\ result.ret = TRUE

\* C2: len(filter) is the number of add calls that returned since
\* construction or the last clear, duplicates included.
C2_LenCountsAddCalls ==
    Live =>
        /\ items_added_count = Len(add_log)
        /\ result.op = "__len__" => result.ret = Len(add_log)

\* the counter after add(x), add(y), add(x), y setting a bit x did not
C3_AfterXYX ==
    \A x, y \in HashableItems :
        (/\ Live /\ add_log = <<x, y, x>> /\ x # y
         /\ IndexSet(y) \ IndexSet(x) # {})
        => items_added_count = 2

\* an add call whose bits are all set, or whose item was added already,
\* leaves the counter unchanged
C3_SaturatedAddStep ==
    \A item \in HashableItems :
        (Live /\ add_log' = Append(add_log, item))
        => /\ (\A j \in 1..num_hashes : BitIsSet(bit_array, Indices(item)[j]))
               => items_added_count' = items_added_count
           /\ item \in Added => items_added_count' = items_added_count

C4_ClearStep ==
    (Live /\ result'.op = "clear")
    => /\ items_added_count' = 0
       /\ Len(bit_array') = Len(bit_array)
       /\ \A b \in 1..Len(bit_array') : bit_array'[b] = 0
       /\ bit_array' = InitObject(expected_items, fp_rate, NoneData).bit_array
       /\ \A x \in HashableItems :
              MightContainItem(bit_array', x, num_bits', num_hashes').ret = FALSE

\* a query on an item the last clear wiped, before any later add
C4_WipedItemsAbsent ==
    (Live /\ IsQuery(result) /\ result.arg \in cleared_items) => result.ret = FALSE

\* C4: a clear call leaves the counter at 0 and the bit array as the
\* constructor without initial data builds it (all zero, same length), so
\* that no item is reported present; and a query on an item the clear
\* wiped returns False as long as no add call follows.
C4_ClearResets == [](C4_WipedItemsAbsent) /\ [][C4_ClearStep]_vars

\* C4 witness: a query on an item that was added and then wiped by clear
\* returned False
C4_Witness ==
    /\ Live /\ IsQuery(result) /\ result.arg \in cleared_items
    /\ result.ret = FALSE /\ items_added_count = 0

\* C5: a _get_hashes call on an item that can be canonicalized yields
\* exactly num_hashes indices, each in [0, num_bits), and the same list as
\* the first call for that item, whatever happened to the bit array and the
\* counter in between.
C5_HashIndices ==
    (Live /\ result.op = "_get_hashes" /\ result.exc = "None") =>
        /\ Len(result.ret) = num_hashes
        /\ \A j \in 1..Len(result.ret) : 0 <= result.ret[j] /\ result.ret[j] < num_bits
        /\ (hash_memo # <<>> /\ hash_memo[1].item = result.arg)
               => result.ret = hash_memo[1].indices

\* C5 witness: a second call for the item of the first call, made after the
\* counter (and so the bit array) changed, with more than one index
C5_Witness ==
    /\ Live /\ result.op = "_get_hashes" /\ result.exc = "None"
    /\ hash_memo # <<>> /\ hash_memo[1].item = result.arg
    /\ hash_memo[1].count < items_added_count
    /\ num_hashes > 1 /\ num_bits > 8

\* the arguments of the constructor call, while it is the last call
InitArgN == result.arg[1]
InitArgP == result.arg[2]
InitArgData == result.arg[3]
\* a positive integer; a real number strictly between 0.0 and 1.0
PositiveInteger(n) == n.type = "hugeint" \/ (n.type = "int" /\ n.val >= 1)
OpenUnitReal(p) == p.type = "float" /\ p.micro \in 1..999999
AllHashable(data) == \A i \in 1..Len(data.items) : data.items[i] \in HashableItems

\* C6: the constructor raises ValueError and leaves no object whenever
\* expected_items is no positive integer or false_positive_rate is no real
\* number strictly between 0.0 and 1.0; for every positive integer and every
\* such rate it raises no ValueError, and it returns an object when the
\* initial data (if any) can be canonicalized.
C6_InvalidArgumentsRejected ==
    result.op = "__init__" =>
        IF PositiveInteger(InitArgN) /\ OpenUnitReal(InitArgP)
        THEN /\ result.exc # "ValueError"
             /\ AllHashable(InitArgData) => (result.exc = "None" /\ phase = "live")
        ELSE /\ result.exc = "ValueError"
             /\ phase = "failed"
             /\ bit_array = <<>> /\ num_bits = 0 /\ expected_items = NoneValue

\* C6 witness: the constructor raised for n = 3 and p = 1.0
C6_Witness ==
    /\ phase = "failed" /\ result.op = "__init__" /\ result.exc = "ValueError"
    /\ InitArgN = NArg("int", 3) /\ InitArgP = PArg("float", 1000000)

\* no step of a live object changes the configuration
C7_ConfigStep == Live => config' = config

\* the configuration is what the constructor derives from (n, p)
C7_ConfigDerived ==
    Live =>
        LET o == InitObject(expected_items, fp_rate, NoneData)
        IN  /\ num_bits = o.num_bits
            /\ num_hashes = o.num_hashes
            /\ num_bytes = o.num_bytes

\* C7: once the object is constructed, expected_items, false_positive_rate,
\* num_bits, num_hashes and num_bytes never change, and stay what the
\* constructor derives from (n, p).
C7_ConfigImmutable == [](C7_ConfigDerived) /\ [][C7_ConfigStep]_vars

\* C7 witness: a clear call wiped two added items, in a filter of more than
\* one byte and more than one hash round
C7_Witness ==
    /\ Live /\ result.op = "clear" /\ Cardinality(cleared_items) >= 2
    /\ num_bytes > 1 /\ num_hashes > 1

\* a step of one of the query calls
C8_QueryStep ==
    (/\ Live
     /\ result'.op \in {"might_contain", "__contains__",
                        "current_false_positive_rate", "__len__"})
    => /\ bit_array' = bit_array
       /\ items_added_count' = items_added_count

\* C8: might_contain, the in operator, current_false_positive_rate and len
\* leave the bit array and the counter as they were, whatever they return.
C8_QueriesPure == [][C8_QueryStep]_vars

\* C8 witness: a membership query returned False on a filter holding items
C8_Witness ==
    /\ Live /\ result.op = "__contains__" /\ result.exc = "None"
    /\ result.ret = FALSE /\ items_added_count >= 1

\* a step of an add call that raised
C9_FailedAddStep ==
    (Live /\ result'.op = "add" /\ result'.exc # "None")
    => /\ bit_array' = bit_array
       /\ items_added_count' = items_added_count

\* the state an add call that raised leaves
C9_FailedAddKeepsItems ==
    (Live /\ result.op = "add" /\ result.exc # "None")
    => \A x \in Added : Present(x)

\* C9: an add call that raises because its item cannot be canonicalized
\* changes neither the bit array nor the counter, and the items added before
\* are still reported present.
C9_FailedAddAtomic == [](C9_FailedAddKeepsItems) /\ [][C9_FailedAddStep]_vars

\* C9 witness: add raised TypeError on a filter that holds two items
C9_Witness ==
    /\ Live /\ result.op = "add" /\ result.exc = "TypeError"
    /\ result.arg \in UnhashableItems
    /\ Len(add_log) >= 2 /\ items_added_count >= 2

\* C10: right after a construction without initial data all bytes are zero,
\* the counter is 0 and no item is reported present; and as long as no add
\* call returned, every query returns False.
C10_ConstructedEmpty ==
    /\ (Live /\ result.op = "__init__" /\ Len(InitArgData.items) = 0)
       => /\ \A b \in 1..Len(bit_array) : bit_array[b] = 0
          /\ Len(bit_array) = num_bytes
          /\ items_added_count = 0
          /\ \A x \in HashableItems : ~Present(x)
    /\ (Live /\ add_log = <<>> /\ IsQuery(result)) => result.ret = FALSE

\* C10 witness: a query on a filter of more than one byte, constructed
\* without initial data and never added to, returned False
C10_Witness ==
    /\ Live /\ add_log = <<>> /\ cleared_items = {} /\ items_added_count = 0
    /\ result.op = "__contains__" /\ result.exc = "None" /\ result.ret = FALSE
    /\ num_bytes > 1

\* the object after add is called on each item of data in turn, from an
\* empty object of m bits and k hash rounds
RECURSIVE AddedInTurn(_, _, _, _)
AddedInTurn(data, upto, m, k) ==
    IF upto = 0 THEN [exc |-> "None", arr |-> ZeroBytes(Len(bit_array)), count |-> 0]
    ELSE LET before == AddedInTurn(data, upto - 1, m, k)
         IN  AddItem(before.arr, before.count, data[upto], m, k)

\* C11: a construction with initial data that can be canonicalized leaves
\* the bit array and the counter that add, called on each item in order on
\* the empty filter, leaves; every initial item is reported present; and
\* len(filter) is the number of initial items.
C11_InitialDataAsAdds ==
    (Live /\ result.op = "__init__" /\ AllHashable(InitArgData)) =>
        LET data == InitArgData.items
            o == AddedInTurn(data, Len(data), num_bits, num_hashes)
        IN  /\ bit_array = o.arr
            /\ \A i \in 1..Len(data) : Present(data[i])
            /\ items_added_count = Len(data)

\* C12: the bit array is ceil(num_bits / 8) bytes long in every state of a
\* constructed filter: the least number of bytes that holds num_bits bits.
C12_BitArrayLength ==
    Live =>
        /\ Len(bit_array) * 8 >= num_bits
        /\ (Len(bit_array) - 1) * 8 < num_bits
        /\ Len(bit_array) = num_bytes

\* C12 witness: a clear call rebuilt the array of a filter whose num_bits
\* is no multiple of 8 and that held items
C12_Witness ==
    /\ Live /\ result.op = "clear" /\ cleared_items # {}
    /\ num_bits % 8 # 0 /\ Len(bit_array) > 1

\* C13: num_bits >= 1 and num_hashes >= 1 in every state of a constructed
\* filter, for every accepted (n, p); when the numeric computation fails
\* (an n beyond the float range) both are 1.
C13_SizesAtLeastOne ==
    Live =>
        /\ num_bits >= 1
        /\ num_hashes >= 1
        /\ expected_items.type = "hugeint" => (num_bits = 1 /\ num_hashes = 1)

\* C13 witness: a filter constructed for an n beyond the float range took
\* an add call
C13_Witness ==
    /\ Live /\ expected_items.type = "hugeint"
    /\ result.op = "add" /\ result.exc = "None" /\ items_added_count = 1

\* current_false_positive_rate() in the current state, in thousandths
Rate == CurrentFalsePositiveRate(items_added_count, num_hashes, num_bits)

\* C14: current_false_positive_rate() raises nothing and returns a value in
\* [0.0, 1.0] in every state of a constructed filter, and 0.0 when the
\* counter is 0 (a fresh or just cleared filter).
C14_RateInUnitInterval ==
    Live =>
        /\ 0 <= Rate /\ Rate <= 1000
        /\ items_added_count = 0 => Rate = 0
        /\ result.op = "current_false_positive_rate"
               => (result.exc = "None" /\ result.ret = Rate)

\* C14 witness: the estimate of a filter that held items and was just
\* cleared is 0.0
C14_Witness ==
    /\ Live /\ result.op = "current_false_positive_rate" /\ result.ret = 0
    /\ cleared_items # {} /\ add_log = <<>>

\* an add call on a filter that holds items: the estimate is not smaller
\* after it, and greater when the item is a new one
C15_RateStep ==
    (Live /\ add_log # <<>> /\ add_log' # add_log /\ result'.op = "add")
    => /\ Rate' >= Rate
       /\ result'.arg \notin Added => Rate' > Rate

\* C15: on a filter that holds items, every add call leaves an estimate
\* that is not smaller than before, and an add call of a new item leaves a
\* strictly greater one.
C15_RateGrows == [][C15_RateStep]_vars

\* the estimate is strictly greater whenever the counter is (so that the
\* rounding of the fixed point hides no growth within the bounds)
C15_RateFollowsCounter ==
    [][(Live /\ items_added_count >= 1 /\ items_added_count' > items_added_count)
       => Rate' > Rate]_vars

\* Python's ==: int, float and bool compare by their numeric value, the
\* other values by type and value
IsNumber(item) == item.type \in {"int", "float", "bool"}
NumValue(item) ==
    CASE item.text = "1" -> 1
      [] item.text = "1.0" -> 1
      [] item.text = "True" -> 1
PyEq(a, b) ==
    IF IsNumber(a) /\ IsNumber(b) THEN NumValue(a) = NumValue(b)
    ELSE a.type = b.type /\ a.text = b.text

\* True and 1, and a tuple and the str of its rendering, have different
\* canonical bytes
C16_TypesDiscriminated ==
    /\ Repr(PyBool("True")) # Repr(PyInt("1"))
    /\ Repr(PyTuple("(1, 2)")) # Repr(PyStr("(1, 2)"))

\* C16 as stated: True and 1, a tuple and the str of its rendering, have
\* different canonical bytes, and an item that == holds equal to an added
\* item has the bytes of that item and is reported present.
C16_EqualItemsFound ==
    /\ C16_TypesDiscriminated
    /\ (Live /\ IsQuery(result)) =>
           \A x \in Added :
               PyEq(x, result.arg)
               => (Repr(x) = Repr(result.arg) /\ result.ret = TRUE)

\* C16 amended: among str, int, float, bool and tuple values, two items have
\* the same canonical bytes exactly when they have the same type and value
\* (so True and 1, a tuple and the str of its rendering, differ), and a
\* query on an item of the type and value of an added item returns True.
C16_SameTypeAndValueFound ==
    /\ C16_TypesDiscriminated
    /\ \A a, b \in CanonItems \cup HashableItems : (Repr(a) = Repr(b)) <=> (a = b)
    /\ (Live /\ IsQuery(result) /\ result.arg \in Added) => result.ret = TRUE

\* C16 witness: 1 was added, and a query on True, which == holds equal to
\* 1, returned False
C16_Witness ==
    /\ Live /\ Added = {PyInt("1")}
    /\ IsQuery(result) /\ result.arg = PyBool("True") /\ result.ret = FALSE

ParamCall == result.op = "_calculate_optimal_params"
ParamN == result.arg.n
ParamP == result.arg.p
ParamM == result.ret[1]
ParamK == result.ret[2]
ParamAccepted == ValidExpectedItems(ParamN) /\ ValidFpRate(ParamP)

\* m = max(1, ceil(n * -ln p / (ln 2)^2)) and k = max(1, ceil((m / n) * ln 2)),
\* with the logarithms in millionths
SizedByFormula(n, p, m, k) ==
    LET x == n * (-LogMicro(p))
        y == m * 693147
    IN  /\ m >= 1 /\ m * 480453 >= x /\ (m = 1 \/ (m - 1) * 480453 < x)
        /\ k >= 1 /\ k * n * 1000000 >= y /\ (k = 1 \/ (k - 1) * n * 1000000 < y)

\* the two sizes the tests and the documentation give
SizedAsDocumented(n, p, m, k) ==
    /\ (n = 1000 /\ p = PArg("float", 10000))
           => (m \in 9584..9586 /\ k \in 6..8)
    /\ (n = 1000000 /\ p = PArg("float", 100))
           => (m \in 19170116..19170118 /\ k \in 12..14)

SizedInFloatRange ==
    (ParamCall /\ ParamAccepted /\ ParamN.type = "int") =>
        /\ ParamM >= 1 /\ ParamK >= 1
        /\ (ParamN.val <= MaxN)
               => SizedByFormula(ParamN.val, ParamP, ParamM, ParamK)
        /\ SizedAsDocumented(ParamN.val, ParamP, ParamM, ParamK)

BitPositions == 0..(8 * Len(bit_array) - 1)
SetBits(arr) == {i \in 0..(8 * Len(arr) - 1) : BitIsSet(arr, i)}

\* C18: might_contain(item) returns True if and only if every one of the
\* item's k index bits is set in the bit array, and False exactly when at
\* least one of them is not; stopping at the first unset bit changes nothing.
C18_TrueIffAllBitsSet ==
    (Live /\ IsQuery(result)) =>
        LET idx == Indices(result.arg)
        IN  /\ result.ret = TRUE <=> \A j \in 1..num_hashes : BitIsSet(bit_array, idx[j])
            /\ result.ret = FALSE <=> \E j \in 1..num_hashes : ~BitIsSet(bit_array, idx[j])

\* C18 witness: a query returned False on an item whose first index bit is
\* set and a later one is not
C18_Witness ==
    /\ Live /\ IsQuery(result) /\ result.ret = FALSE /\ num_hashes > 1
    /\ BitIsSet(bit_array, Indices(result.arg)[1])

C19_AddStep ==
    (Live /\ result'.op = "add" /\ result'.exc = "None" /\ add_log' # add_log) =>
        /\ Len(bit_array') = Len(bit_array)
        /\ \A i \in BitPositions :
               BitIsSet(bit_array', i)
               <=> (BitIsSet(bit_array, i) \/ i \in IndexSet(result'.arg))
C19_GrowStep ==
    (Live /\ result'.op \notin {"clear", "__init__"}) =>
        SetBits(bit_array) \subseteq SetBits(bit_array')

\* C19: add(item) sets exactly the bits at the item's k indices: a bit is set
\* after the call if and only if it was set before or is one of the item's
\* indices; and no step other than a clear (or a construction) unsets a bit.
C19_AddSetsOnlyItsBits == [][C19_AddStep /\ C19_GrowStep]_vars

\* C19 witness: after two adds or more, the set bits are those of the added
\* items, and some are not of the item added last
C19_Witness ==
    /\ Live /\ result.op = "add" /\ result.exc = "None" /\ Len(add_log) >= 2
    /\ num_bytes > 1
    /\ SetBits(bit_array) = UNION {IndexSet(x) : x \in Added}
    /\ SetBits(bit_array) \ IndexSet(result.arg) # {}
    /\ IndexSet(result.arg) \ IndexSet(add_log[1]) # {}

PopCount(arr) == Cardinality(SetBits(arr))

C21_InRangeAndPaddingZero ==
    Live =>
        /\ \A item \in HashableItems \cup CanonItems :
               \A j \in 1..num_hashes :
                   LET index == Indices(item)[j]
                   IN  /\ index \in 0..(num_bits - 1)
                       /\ index \div 8 < num_bytes
                       /\ index \div 8 < Len(bit_array)
        /\ \A i \in num_bits..(8 * Len(bit_array) - 1) : ~BitIsSet(bit_array, i)

\* C21 witness: an add set the highest bit below num_bits, next to the
\* padding of the last byte
C21_Witness ==
    /\ Live /\ result.op = "add" /\ result.exc = "None"
    /\ num_bits % 8 # 0 /\ num_bytes > 1
    /\ (num_bits - 1) \in IndexSet(result.arg)
    /\ BitIsSet(bit_array, num_bits - 1)

====
